---- MODULE Spec2Model ----
(***************************************************************************)
(* The iOS audio streaming client of myclient: AudioStreamClient (the      *)
(* session protocol, a @MainActor object), AudioRecorder (capture),        *)
(* AudioPlayback (playback) and the URLSessionWebSocketTask transports it  *)
(* drives.                                                                 *)
(*                                                                         *)
(* Three kinds of execution contexts are modelled:                         *)
(*   - the main actor: connect, disconnect, startRecording, stopRecording  *)
(*     and the blocks posted with DispatchQueue.main.async (mainq); each   *)
(*     runs to completion, so each is one action;                          *)
(*   - the audio thread: the tap callback of AudioRecorder, which runs     *)
(*     handleBuffer, then the onPcmData closure, then sendBinary. It       *)
(*     shares converter, onPcmData and task with the main actor without    *)
(*     any synchronisation, so it is split at each shared read;            *)
(*   - the transport's callback queue: the completion handler of           *)
(*     task.receive, which runs handleMessage and then listen() outside    *)
(*     the main actor; one position per connection.                        *)
(***************************************************************************)
EXTENDS Integers, Sequences, FiniteSets, TLC

\* Bounds of the model.
MaxConn == 2        \* transports opened by connect()
MaxStarts == 2      \* calls of startRecording that pass its guard
MaxBuffers == 2     \* buffers delivered by the capture tap
MaxInbound == 2     \* inbound messages delivered by the transports

\* Bound of the specification with the receive path, SpecIn.
InStarts == 1

\* Bounds of the capture specification SpecCapture (buffers delivered) and
\* of the playback specification SpecPlayback (buffers enqueued).
CapBuffers == 2
PlayChunks == 4

\* Bounds of the web frontends: the length of a configured string, the
\* sendMessage calls and the streamed deltas.
MaxLen == 3
MaxReq == 2
MaxDeltas == 2
\* Pieces of a response body.
MaxPieces == 3
\* Events of a response body.
MaxBlocks == 2

\* Bounds of the single-recording specification SpecSmall.
SmallConn == 1
SmallStarts == 1
SmallBuffers == 1

\* A captured buffer holds BufFrames frames (frameLength = frameCapacity).
BufFrames == 2

NoTask == 0
Conns == 1..MaxConn

\* The text of the Project ID field of ContentView.
ProjectIds == {"", "p1"}
\* input.outputFormat(forBus: 0): the device rate as a multiple of 16 kHz.
InputRatios == {1, 2}

VARIABLES
    \* AudioStreamClient
    status, transcript, assistantText, isConnected, isRecording, visemeValue,
    task,
    \* what handleJson assigned for the last message: each assignment of a
    \* @Published property publishes to the views, each call of a collaborator
    \* hands the payload on
    dispatched,
    \* URLSessionWebSocketTask, one per connect()
    nconn, tstate, wire, recvPending, rpc, rmsg,
    \* the text a receive callback read for assistantText.append
    rtext,
    \* DispatchQueue.main
    mainq,
    \* AudioRecorder
    tap, recEngine, converter, onPcmData,
    \* the audio thread running the tap callback
    apc, adata, nbuf,
    \* AudioPlayback
    started, pbEngine, playing, pqueue, rendered,
    \* history: every buffer handed to enqueuePcm, in call order
    enqueued,
    \* UnityBridge
    forwarded,
    \* the device, the Project ID field and the process
    inputRatio, projectId, crashed,
    \* history
    discRun, captured, nstart, nin

clientVars == <<status, transcript, assistantText, isConnected, isRecording,
                visemeValue, task, dispatched>>
transportVars == <<nconn, tstate, wire, recvPending, rpc, rmsg,
                   rtext>>
recorderVars == <<tap, recEngine, converter, onPcmData>>
audioVars == <<apc, adata, nbuf>>
playbackVars == <<started, pbEngine, playing, pqueue, rendered, enqueued>>
histVars == <<discRun, captured, nstart, nin>>
envVars == <<inputRatio, projectId>>
deviceVars == <<clientVars, transportVars, mainq, recorderVars, audioVars,
                playbackVars, forwarded, envVars, crashed, histVars>>

\* The web frontends (App.jsx with runtimeConfig.js, and main.js).
VARIABLES
    \* runtimeConfig.js: import.meta.env.VITE_API_BASE, what the fetch of
    \* /app-config.json yields, and the apiBase loadRuntimeConfig returned
    envValue, configFile, apiBase,
    \* which frontend runs
    frontend,
    \* the chat state: selectedId, sending, the message lists by project id
    selectedId, sending, messages,
    \* the sendMessage calls that have not returned, and their count
    reqs, nreq, ndelta,
    \* streamResponse: the bytes of the response body and how many the reader
    \* has returned, the bytes the TextDecoder holds back, buffer, the content
    \* of the assistant message, the payloads handed to JSON.parse so far, and
    \* whether the read loop has ended
    body, consumed, pending, buffer, content, parsed, ended

configVars == <<envValue, configFile, apiBase>>
chatVars == <<frontend, selectedId, sending, messages, reqs, nreq, ndelta>>
streamVars == <<body, consumed, pending, buffer, content, parsed, ended>>
webVars == <<configVars, chatVars, streamVars>>
outsideChat == <<deviceVars, configVars, streamVars>>
vars == <<deviceVars, webVars>>

----------------------------------------------------------------------------
\* The part of the state the main-actor methods read and write, as a record,
\* so that a method calling another composes as in the source.
Cur ==
    [status |-> status, transcript |-> transcript,
     assistantText |-> assistantText, isConnected |-> isConnected,
     isRecording |-> isRecording, task |-> task,
     nconn |-> nconn, tstate |-> tstate, wire |-> wire,
     recvPending |-> recvPending, mainq |-> mainq,
     tap |-> tap, recEngine |-> recEngine, converter |-> converter,
     onPcmData |-> onPcmData,
     started |-> started, pbEngine |-> pbEngine, playing |-> playing,
     pqueue |-> pqueue, crashed |-> crashed,
     visemeValue |-> visemeValue, forwarded |-> forwarded,
     dispatched |-> dispatched, enqueued |-> enqueued]

Commit(s) ==
    /\ status' = s.status
    /\ transcript' = s.transcript
    /\ assistantText' = s.assistantText
    /\ isConnected' = s.isConnected
    /\ isRecording' = s.isRecording
    /\ task' = s.task
    /\ nconn' = s.nconn
    /\ tstate' = s.tstate
    /\ wire' = s.wire
    /\ recvPending' = s.recvPending
    /\ mainq' = s.mainq
    /\ tap' = s.tap
    /\ recEngine' = s.recEngine
    /\ converter' = s.converter
    /\ onPcmData' = s.onPcmData
    /\ started' = s.started
    /\ pbEngine' = s.pbEngine
    /\ playing' = s.playing
    /\ pqueue' = s.pqueue
    /\ crashed' = s.crashed
    /\ visemeValue' = s.visemeValue
    /\ forwarded' = s.forwarded
    /\ dispatched' = s.dispatched
    /\ enqueued' = s.enqueued

----------------------------------------------------------------------------
\* URLSessionWebSocketTask.send(_:completionHandler:) on transport c.
\* A transport that is connecting or open takes the message, in call order;
\* a failed or cancelled one completes with an error, and both completion
\* handlers of the client then post  status = "Send failed: ..."  to main.
\* Every send of the client goes to the transport task holds at that time,
\* so wire is the log of the latest transport: connect() starts a new one.
taskSend(s, c, m) ==
    IF s.tstate[c] \in {"connecting", "open"}
    THEN [s EXCEPT !.wire = Append(@, m)]
    ELSE [s EXCEPT !.mainq = Append(@, "sendFailed")]

\* AudioStreamClient.sendJson: the payloads of this client always serialise.
sendJson(s, c, m) == taskSend(s, c, m)

\* AudioStreamClient.listen: task?.receive registers one completion handler.
listen(s) ==
    IF s.task = NoTask THEN s
    ELSE [s EXCEPT !.recvPending[s.task] = @ + 1]

\* AudioRecorder.stop
recorderStop(s) ==
    [s EXCEPT !.tap = FALSE, !.recEngine = FALSE,
              !.onPcmData = FALSE, !.converter = "nil"]

\* AudioPlayback.stop: player.stop() drops the scheduled buffers.
playbackStop(s) ==
    [s EXCEPT !.playing = FALSE, !.pqueue = <<>>, !.pbEngine = FALSE,
              !.started = FALSE]

\* AudioPlayback.start; engineOk is whether engine.start() returns.
\* The result carries threw, the error thrown to the caller.
playbackStart(s, engineOk) ==
    IF s.started THEN [st |-> s, threw |-> FALSE]
    ELSE IF s.pbEngine THEN [st |-> s, threw |-> FALSE]
    ELSE IF ~engineOk THEN [st |-> s, threw |-> TRUE]
    ELSE [st |-> [s EXCEPT !.pbEngine = TRUE, !.playing = TRUE,
                           !.started = TRUE],
          threw |-> FALSE]

\* AudioRecorder.start; convOk is whether AVAudioConverter(from:to:) returns
\* a converter, engineOk whether engine.start() returns, retap what
\* installTap does on a bus that already has a tap ("crash": it raises an
\* Objective-C exception, "replace": the new tap takes the bus).
recorderStart(s, convOk, engineOk, retap) ==
    LET s1 == [s EXCEPT !.onPcmData = TRUE,
                        !.converter = IF convOk THEN "ok" ELSE "nil"]
    IN  IF s.tap /\ retap = "crash"
        THEN [st |-> [s1 EXCEPT !.crashed = TRUE], threw |-> FALSE]
        ELSE LET s2 == [s1 EXCEPT !.tap = TRUE]
             IN  IF engineOk
                 THEN [st |-> [s2 EXCEPT !.recEngine = TRUE], threw |-> FALSE]
                 ELSE [st |-> s2, threw |-> TRUE]

\* AudioStreamClient.stopRecording
stopRecording(s) ==
    IF s.task = NoTask \/ ~s.isRecording THEN s
    ELSE LET s1 == playbackStop(recorderStop(s))
             s2 == sendJson(s1, s.task, <<"audio.stop">>)
         IN  [s2 EXCEPT !.isRecording = FALSE, !.status = "Processing"]

\* disconnect() without  task = nil : the cancelled task stays in the field.
disconnect_keepsTask(s) ==
    LET s1 == stopRecording(s)
        s2 == IF s1.task = NoTask THEN s1
              ELSE [s1 EXCEPT !.tstate[s1.task] = "cancelled"]
    IN  [s2 EXCEPT !.isConnected = FALSE, !.status = "Disconnected"]

\* disconnect() without its call of stopRecording().
disconnect_keepsRecording(s) ==
    LET s2 == IF s.task = NoTask THEN s
              ELSE [s EXCEPT !.tstate[s.task] = "cancelled"]
    IN  [s2 EXCEPT !.task = NoTask, !.isConnected = FALSE,
                   !.status = "Disconnected"]

\* AudioStreamClient.disconnect
disconnect(s) ==
    LET s1 == stopRecording(s)
        s2 == IF s1.task = NoTask THEN s1
              ELSE [s1 EXCEPT !.tstate[s1.task] = "cancelled"]
    IN  [s2 EXCEPT !.task = NoTask, !.isConnected = FALSE,
                   !.status = "Disconnected"]

\* connect() without its call of disconnect(): the old task is left as it is.
connect_keepsOld(s) ==
    LET c == s.nconn + 1
        s2 == [s EXCEPT !.nconn = c, !.task = c, !.wire = <<>>,
                        !.tstate[c] = "connecting",
                        !.isConnected = TRUE, !.status = "Connected"]
    IN  listen(s2)

\* AudioStreamClient.connect: task.resume() starts the handshake and returns.
connect(s) ==
    LET s1 == disconnect(s)
        c == s1.nconn + 1
        s2 == [s1 EXCEPT !.nconn = c, !.task = c, !.wire = <<>>,
                         !.tstate[c] = "connecting",
                         !.isConnected = TRUE, !.status = "Connected"]
    IN  listen(s2)

\* AudioStreamClient.startRecording. configureAudioSession may set status to
\* "Audio session error: ...", which both branches below overwrite.
startRecording(s, pid, pbOk, convOk, recOk, retap) ==
    IF s.task = NoTask THEN s
    ELSE LET s1 == [s EXCEPT !.assistantText = <<>>, !.transcript = ""]
             s2 == sendJson(s1, s.task, <<"audio.start", pid>>)
             p == playbackStart(s2, pbOk)
             r == recorderStart(p.st, convOk, recOk, retap)
         IN  IF p.threw
             THEN [p.st EXCEPT !.status = "Audio start failed"]
             ELSE IF r.st.crashed THEN r.st
             ELSE IF r.threw
             THEN [r.st EXCEPT !.status = "Audio start failed"]
             ELSE [r.st EXCEPT !.isRecording = TRUE, !.status = "Recording"]

----------------------------------------------------------------------------
\* Capture and conversion (AudioRecorder.handleBuffer).

\* The k-th buffer the tap delivers: distinct samples, so that a skipped,
\* repeated or reordered buffer shows on the wire.
Buffer(k) == [i \in 1..BufFrames |-> (k - 1) * BufFrames + i]

RECURSIVE Repeat(_, _)
Repeat(buf, n) == IF n = 0 THEN <<>> ELSE buf \o Repeat(buf, n - 1)

\* Rate conversion by an integer ratio keeps every ratio-th frame.
Decimate(frames, ratio) ==
    [i \in 1..(Len(frames) \div ratio) |-> frames[(i - 1) * ratio + 1]]

\* The canonical (16 kHz mono PCM16) form of one captured buffer.
Canonical(buf, ratio) == Decimate(buf, ratio)

\* converter.convert(to: pcmBuffer, error:) as handleBuffer calls it: the
\* output buffer has the capacity of the input buffer, and the input block
\* answers .haveData with the same buffer each time the converter asks, so
\* the converter pulls until the output is full.
convert(buf, ratio) ==
    LET capacity == Len(buf)
        pulls == ratio
        out == Decimate(Repeat(buf, pulls), ratio)
    IN  SubSeq(out, 1, capacity)

\* Inbound messages, as JSONSerialization and the casts of handleJson see
\* them. "none" is a payload without a string "type" (or not JSON at all).
\* The k-th message may carry audio chunk k (<<"pcm", k>> stands for the
\* base64 text of that chunk); viseme values are in tenths.
\* An optional field is <<>> when absent or of the wrong type, <<x>> else.
None == <<>>
Some(x) == <<x>>
Inbound(k) ==
    {[type |-> "none"], [type |-> "bogus"], [type |-> "asr.start"],
     [type |-> "assistant.done"], [type |-> "tts.start"],
     [type |-> "tts.done"]}
    \cup {[type |-> "asr.final", text |-> x] : x \in {Some("hi"), None}}
    \cup {[type |-> "assistant.delta", text |-> x] : x \in {Some("a"), None}}
    \cup {[type |-> "tts.audio", data |-> x] :
             x \in {Some(<<"pcm", k>>), Some(<<"!bad64">>), None}}
    \cup {[type |-> "viseme", value |-> x] : x \in {Some(5), Some(14), None}}
    \cup {[type |-> "error", message |-> x] : x \in {Some("boom"), None}}
NoMsg == [type |-> "<no message>"]

Streaming == isConnected /\ isRecording

----------------------------------------------------------------------------
InitClient ==
    /\ status = "Disconnected"
    /\ transcript = ""
    /\ assistantText = <<>>
    /\ isConnected = FALSE
    /\ isRecording = FALSE
    /\ visemeValue = 0
    /\ task = NoTask
    /\ dispatched = {}
    /\ nconn = 0
    /\ tstate = [c \in Conns |-> "none"]
    /\ wire = <<>>
    /\ recvPending = [c \in Conns |-> 0]
    /\ rpc = [c \in Conns |-> "idle"]
    /\ rmsg = [c \in Conns |-> NoMsg]
    /\ rtext = [c \in Conns |-> None]
    /\ mainq = <<>>
    /\ tap = FALSE
    /\ recEngine = FALSE
    /\ converter = "nil"
    /\ onPcmData = FALSE
    /\ apc = "idle"
    /\ adata = <<>>
    /\ nbuf = 0
    /\ started = FALSE
    /\ pbEngine = FALSE
    /\ playing = FALSE
    /\ pqueue = <<>>
    /\ rendered = <<>>
    /\ enqueued = <<>>
    /\ forwarded = None
    /\ inputRatio \in InputRatios
    /\ projectId \in ProjectIds
    /\ crashed = FALSE
    /\ discRun = 0
    /\ captured = <<>>
    /\ nstart = 0
    /\ nin = 0

\* The web frontends before their first step, with no runtime configuration:
\* VITE_API_BASE undefined and no /app-config.json.
NotAString == [isString |-> FALSE, chars |-> <<>>]
NoConfigFile == [kind |-> "notOk", apiBase |-> NotAString]
NoProject == "<null>"
Projects == {"p1", "p2"}
Frontends == {"App.jsx", "main.js"}

InitChat(frontends) ==
    /\ frontend \in frontends
    /\ selectedId = NoProject
    /\ sending = FALSE
    /\ messages = [p \in Projects |-> <<>>]
    /\ reqs = <<>>
    /\ nreq = 0
    /\ ndelta = 0

\* No response body is being read.
InitNoStream ==
    /\ body = <<>>
    /\ consumed = 0
    /\ pending = <<>>
    /\ buffer = <<>>
    /\ content = <<>>
    /\ parsed = <<>>
    /\ ended = TRUE

InitWebIdle ==
    /\ envValue = NotAString
    /\ configFile = NoConfigFile
    /\ apiBase = None
    /\ InitChat({"App.jsx"})
    /\ InitNoStream

Init == InitClient /\ InitWebIdle

\* discRun counts the disconnect() calls made in a row (up to two): every
\* other step resets it.
NotDisconnect == discRun' = 0

----------------------------------------------------------------------------
\* The main actor.

ConnectUpTo(maxConn) ==
    /\ ~crashed
    /\ nconn < maxConn
    /\ Commit(connect(Cur))
    /\ NotDisconnect
    /\ UNCHANGED <<rpc, rmsg, rtext, audioVars, rendered,
                   envVars, webVars, captured, nstart, nin>>

Connect == ConnectUpTo(MaxConn)

Disconnect ==
    /\ ~crashed
    /\ Commit(disconnect(Cur))
    /\ discRun' = IF discRun < 2 THEN discRun + 1 ELSE discRun
    /\ UNCHANGED <<rpc, rmsg, rtext, audioVars, rendered,
                   envVars, webVars, captured, nstart, nin>>

\* The outcomes of the framework calls are drawn only where the call is
\* made: engine.start() of the playback when it is not started, installTap
\* on a tapped bus when there is a tap.
StartRecordingUpTo(maxStarts) ==
    /\ ~crashed
    /\ task # NoTask => nstart < maxStarts
    /\ nstart' = IF task = NoTask THEN nstart ELSE nstart + 1
    /\ \E pbOk \in (IF started \/ task = NoTask THEN {TRUE} ELSE BOOLEAN),
          convOk \in (IF task = NoTask THEN {TRUE} ELSE BOOLEAN),
          recOk \in (IF task = NoTask THEN {TRUE} ELSE BOOLEAN),
          retap \in (IF tap THEN {"crash", "replace"} ELSE {"replace"}) :
          Commit(startRecording(Cur, projectId, pbOk, convOk, recOk, retap))
    /\ NotDisconnect
    /\ captured' = IF task = NoTask THEN captured ELSE <<>>
    /\ UNCHANGED <<rpc, rmsg, rtext, audioVars, rendered,
                   envVars, webVars, nin>>

StartRecording == StartRecordingUpTo(MaxStarts)

StopRecording ==
    /\ ~crashed
    /\ Commit(stopRecording(Cur))
    /\ NotDisconnect
    /\ UNCHANGED <<rpc, rmsg, rtext, audioVars, rendered,
                   envVars, webVars, captured, nstart, nin>>

\* A block posted with DispatchQueue.main.async by a completion handler.
RunMain ==
    /\ ~crashed
    /\ mainq # <<>>
    /\ mainq' = Tail(mainq)
    /\ \/ /\ Head(mainq) = "sendFailed"
          /\ status' = "Send failed"
          /\ UNCHANGED isConnected
          /\ NotDisconnect
       \/ /\ Head(mainq) = "wsError"
          /\ status' = "WS error"
          /\ isConnected' = FALSE
          /\ NotDisconnect
    /\ UNCHANGED <<transcript, assistantText, isRecording, visemeValue, task,
                   dispatched, transportVars, recorderVars, audioVars,
                   playbackVars,
                   forwarded, envVars, webVars, crashed, captured, nstart, nin>>

----------------------------------------------------------------------------
\* The audio thread.

\* handleBuffer passing the output buffer on although the converter rejected
\* the input.
HandleBufferUpTo_ignoresError(maxBuffers) ==
    /\ ~crashed
    /\ tap /\ recEngine
    /\ apc = "idle"
    /\ nbuf < maxBuffers
    /\ nbuf' = nbuf + 1
    /\ \E convErr \in BOOLEAN :
         LET buf == Buffer(nbuf + 1) IN
         /\ captured' = IF Streaming /\ ~convErr
                        THEN Append(captured, Canonical(buf, inputRatio))
                        ELSE captured
         /\ IF converter = "nil"
            THEN UNCHANGED <<apc, adata>>
            ELSE /\ apc' = "converted"
                 /\ adata' = IF convErr THEN <<>>
                             ELSE convert(buf, inputRatio)
    /\ NotDisconnect
    /\ UNCHANGED <<clientVars, transportVars, mainq, recorderVars,
                   playbackVars, forwarded,
                   envVars, webVars, crashed, nstart, nin>>

\* The tap delivers a buffer and handleBuffer converts it. convErr is the
\* converter rejecting the buffer (status == .error || error != nil).
HandleBufferUpTo(maxBuffers) ==
    /\ ~crashed
    /\ tap /\ recEngine
    /\ apc = "idle"
    /\ nbuf < maxBuffers
    /\ nbuf' = nbuf + 1
    /\ \E convErr \in BOOLEAN :
         LET buf == Buffer(nbuf + 1) IN
         /\ captured' = IF Streaming /\ ~convErr
                        THEN Append(captured, Canonical(buf, inputRatio))
                        ELSE captured
         /\ IF converter = "nil" \/ convErr
            THEN UNCHANGED <<apc, adata>>
            ELSE /\ apc' = "converted"
                 /\ adata' = convert(buf, inputRatio)
    /\ NotDisconnect
    /\ UNCHANGED <<clientVars, transportVars, mainq, recorderVars,
                   playbackVars, forwarded,
                   envVars, webVars, crashed, nstart, nin>>

HandleBuffer == HandleBufferUpTo(MaxBuffers)

\* onPcmData?(data): the read of the closure the main actor may have cleared.
InvokeOnPcmData ==
    /\ ~crashed
    /\ apc = "converted"
    /\ IF onPcmData
       THEN apc' = "sendBinary" /\ UNCHANGED adata
       ELSE apc' = "idle" /\ adata' = <<>>
    /\ NotDisconnect
    /\ UNCHANGED <<clientVars, transportVars, mainq, recorderVars, nbuf,
                   playbackVars, forwarded, envVars, webVars, crashed, captured,
                   nstart, nin>>

\* AudioStreamClient.sendBinary, called by the closure on the audio thread.
sendBinary(s, data) ==
    IF s.task = NoTask THEN s
    ELSE taskSend(s, s.task, <<"bin", data>>)

SendBinary ==
    /\ ~crashed
    /\ apc = "sendBinary"
    /\ Commit(sendBinary(Cur, adata))
    /\ apc' = "idle"
    /\ adata' = <<>>
    /\ NotDisconnect
    /\ UNCHANGED <<rpc, rmsg, rtext, nbuf, rendered,
                   envVars, webVars, captured, nstart, nin>>

----------------------------------------------------------------------------
\* The transports.

HandshakeOk(c) ==
    /\ ~crashed
    /\ tstate[c] = "connecting"
    /\ tstate' = [tstate EXCEPT ![c] = "open"]
    /\ NotDisconnect
    /\ UNCHANGED <<clientVars, nconn, wire, recvPending, rpc, rmsg, rtext,
                   mainq,
                   recorderVars, audioVars, playbackVars, forwarded,
                   envVars, webVars, crashed, captured, nstart, nin>>

\* The handshake fails: every send queued on the task completes with an error.
HandshakeFail(c) ==
    /\ ~crashed
    /\ tstate[c] = "connecting"
    /\ c = nconn
    /\ tstate' = [tstate EXCEPT ![c] = "failed"]
    /\ wire' = <<>>
    /\ mainq' = mainq \o [i \in 1..Len(wire) |-> "sendFailed"]
    /\ NotDisconnect
    /\ UNCHANGED <<clientVars, nconn, recvPending, rpc, rmsg, rtext,
                   recorderVars, audioVars, playbackVars, forwarded,
                   envVars, webVars, crashed, captured, nstart, nin>>

\* The open connection breaks.
TransportFail(c) ==
    /\ ~crashed
    /\ tstate[c] = "open"
    /\ tstate' = [tstate EXCEPT ![c] = "failed"]
    /\ NotDisconnect
    /\ UNCHANGED <<clientVars, nconn, wire, recvPending, rpc, rmsg, rtext,
                   mainq,
                   recorderVars, audioVars, playbackVars, forwarded,
                   envVars, webVars, crashed, captured, nstart, nin>>

\* The completion handler of receive with .failure, on a failed or cancelled
\* transport: it posts the status and isConnected = false to main.
ReceiveFailure(c) ==
    /\ ~crashed
    /\ tstate[c] \in {"failed", "cancelled"}
    /\ recvPending[c] > 0
    /\ rpc[c] = "idle"
    /\ recvPending' = [recvPending EXCEPT ![c] = @ - 1]
    /\ mainq' = Append(mainq, "wsError")
    /\ NotDisconnect
    /\ UNCHANGED <<clientVars, nconn, tstate, wire, rpc, rmsg, rtext,
                   recorderVars, audioVars, playbackVars, forwarded,
                   envVars, webVars, crashed, captured, nstart, nin>>

\* The completion handler of receive is entered with .success(message).
ReceiveUpTo(c, maxInbound) ==
    /\ ~crashed
    /\ tstate[c] = "open"
    /\ recvPending[c] > 0
    /\ rpc[c] = "idle"
    /\ nin < maxInbound
    /\ nin' = nin + 1
    /\ recvPending' = [recvPending EXCEPT ![c] = @ - 1]
    /\ rpc' = [rpc EXCEPT ![c] = "handle"]
    /\ \E m \in Inbound(nin + 1) : rmsg' = [rmsg EXCEPT ![c] = m]
    /\ NotDisconnect
    /\ UNCHANGED <<clientVars, nconn, tstate, wire, rtext, mainq,
                   recorderVars, audioVars, playbackVars, forwarded,
                   envVars, webVars, crashed, captured, nstart>>

Receive(c) == ReceiveUpTo(c, MaxInbound)

\* enqueuePcm scheduling the buffer in front of the scheduled ones.
enqueuePcm_front(s, data) ==
    [s EXCEPT !.pqueue = <<data>> \o @, !.enqueued = Append(@, data)]

\* AudioPlayback.enqueuePcm: the buffer is scheduled on the player node,
\* whether or not the player is playing.
enqueuePcm(s, data) ==
    [s EXCEPT !.pqueue = Append(@, data), !.enqueued = Append(@, data)]

\* UnityBridge.updateViseme: the value as handed to the bridge.
updateViseme(s, value) == [s EXCEPT !.forwarded = Some(value)]

\* AudioStreamClient.handleJson. The guard on "type", the default case and the
\* guard of tts.audio return without assigning anything.
handleJson(s, m) ==
    LET s0 == [s EXCEPT !.dispatched = {}] IN
    CASE m.type = "asr.final" ->
           [s0 EXCEPT !.transcript = IF m.text = None THEN @ ELSE m.text[1],
                      !.status = "ASR done",
                      !.dispatched = {"transcript", "status"}]
      [] m.type = "assistant.delta" ->
           [s0 EXCEPT !.assistantText =
                         IF m.text = None THEN @ ELSE Append(@, m.text[1]),
                      !.dispatched = {"assistantText"}]
      [] m.type = "assistant.done" ->
           [s0 EXCEPT !.status = "Reply done", !.dispatched = {"status"}]
      [] m.type = "tts.start" ->
           [s0 EXCEPT !.status = "Speaking", !.dispatched = {"status"}]
      [] m.type = "tts.audio" ->
           IF m.data = None \/ m.data = Some(<<"!bad64">>) THEN s0
           ELSE [enqueuePcm(s0, m.data[1]) EXCEPT !.dispatched = {"playback"}]
      [] m.type = "viseme" ->
           IF m.value = None THEN s0
           ELSE [updateViseme([s0 EXCEPT !.visemeValue = m.value[1]],
                              m.value[1])
                    EXCEPT !.dispatched = {"visemeValue", "bridge"}]
      [] m.type = "tts.done" ->
           [s0 EXCEPT !.status = "Idle", !.dispatched = {"status"}]
      [] m.type = "error" ->
           [s0 EXCEPT !.status = IF m.message = None THEN "Error"
                                 ELSE m.message[1],
                      !.dispatched = {"status"}]
      [] OTHER -> s0

\* The completion handler runs handleMessage on the transport's queue, not
\* on the main actor. assistantText.append(delta) reads the property, appends
\* and writes the result back: the read is a step of its own, since the main
\* actor and the callback of another transport may write in between.
ReadAssistantText(c) ==
    /\ ~crashed
    /\ rpc[c] = "handle"
    /\ rmsg[c].type = "assistant.delta"
    /\ rtext[c] = None
    /\ rtext' = [rtext EXCEPT ![c] = Some(assistantText)]
    /\ NotDisconnect
    /\ UNCHANGED <<clientVars, nconn, tstate, wire, recvPending, rpc, rmsg,
                   mainq, recorderVars, audioVars, playbackVars, forwarded,
                   envVars, webVars, crashed, captured, nstart, nin>>

\* The rest of handleJson, as one step: its other assignments are stores.
HandleMessage(c) ==
    /\ ~crashed
    /\ rpc[c] = "handle"
    /\ rmsg[c].type = "assistant.delta" => rtext[c] # None
    /\ LET seen == IF rmsg[c].type = "assistant.delta"
                   THEN [Cur EXCEPT !.assistantText = rtext[c][1]]
                   ELSE Cur
       IN  Commit(handleJson(seen, rmsg[c]))
    /\ rpc' = [rpc EXCEPT ![c] = "listen"]
    /\ rmsg' = [rmsg EXCEPT ![c] = NoMsg]
    /\ rtext' = [rtext EXCEPT ![c] = None]
    /\ NotDisconnect
    /\ UNCHANGED <<audioVars, rendered,
                   envVars, webVars, captured, nstart, nin>>

\* ... and then self.listen(), which reads task again.
Listen(c) ==
    /\ ~crashed
    /\ rpc[c] = "listen"
    /\ Commit(listen(Cur))
    /\ rpc' = [rpc EXCEPT ![c] = "idle"]
    /\ NotDisconnect
    /\ UNCHANGED <<rmsg, rtext, audioVars, rendered, envVars, webVars, captured,
                   nstart, nin>>

----------------------------------------------------------------------------
\* The player node renders the next scheduled buffer.
Render ==
    /\ ~crashed
    /\ playing /\ pbEngine
    /\ pqueue # <<>>
    /\ rendered' = Append(rendered, Head(pqueue))
    /\ pqueue' = Tail(pqueue)
    /\ NotDisconnect
    /\ UNCHANGED <<clientVars, transportVars, mainq, recorderVars, audioVars,
                   started, pbEngine, playing, enqueued, forwarded,
                   envVars, webVars,
                   crashed, captured, nstart, nin>>

----------------------------------------------------------------------------
\* The session and the capture path: the calls of the user interface, the
\* main queue, the audio thread, and the transports opening and failing.
Next ==
    \/ Connect
    \/ Disconnect
    \/ StartRecording
    \/ StopRecording
    \/ RunMain
    \/ HandleBuffer
    \/ InvokeOnPcmData
    \/ SendBinary
    \/ \E c \in Conns : HandshakeOk(c)
    \/ \E c \in Conns : HandshakeFail(c)
    \/ \E c \in Conns : TransportFail(c)
    \/ \E c \in Conns : ReceiveFailure(c)

Spec == Init /\ [][Next]_vars

\* The same system within the smaller bounds: one transport, one recording,
\* one captured buffer.
ConnectSmall == ConnectUpTo(SmallConn)
StartRecordingSmall == StartRecordingUpTo(SmallStarts)
HandleBufferSmall == HandleBufferUpTo(SmallBuffers)

NextSmall ==
    \/ ConnectSmall
    \/ Disconnect
    \/ StartRecordingSmall
    \/ StopRecording
    \/ RunMain
    \/ HandleBufferSmall
    \/ InvokeOnPcmData
    \/ SendBinary
    \/ \E c \in Conns : HandshakeOk(c)
    \/ \E c \in Conns : HandshakeFail(c)
    \/ \E c \in Conns : TransportFail(c)
    \/ \E c \in Conns : ReceiveFailure(c)

SpecSmall == Init /\ [][NextSmall]_vars

\* The receive path and the playback queue.
NextInbound ==
    \/ \E c \in Conns : Receive(c)
    \/ \E c \in Conns : ReadAssistantText(c)
    \/ \E c \in Conns : HandleMessage(c)
    \/ \E c \in Conns : Listen(c)
    \/ Render

\* The session with its receive path: the calls of the user interface, the
\* main queue, the transports and their receive callbacks, and the player.
\* The capture callback sends on its own and is left to Spec.
StartRecordingIn == StartRecordingUpTo(InStarts)

NextIn ==
    \/ Connect
    \/ Disconnect
    \/ StartRecordingIn
    \/ StopRecording
    \/ RunMain
    \/ \E c \in Conns : HandshakeOk(c)
    \/ \E c \in Conns : HandshakeFail(c)
    \/ \E c \in Conns : TransportFail(c)
    \/ \E c \in Conns : ReceiveFailure(c)
    \/ NextInbound

\* The device rate is read by the capture path only.
InitIn == Init /\ inputRatio = 1

SpecIn == InitIn /\ [][NextIn]_vars

\* The capture path over a transport that does not fail: one transport, one
\* recording, CapBuffers buffers.
HandleBufferCap == HandleBufferUpTo(CapBuffers)

NextCapture ==
    \/ ConnectSmall
    \/ Disconnect
    \/ StartRecordingSmall
    \/ StopRecording
    \/ HandleBufferCap
    \/ InvokeOnPcmData
    \/ SendBinary
    \/ \E c \in Conns : HandshakeOk(c)

SpecCapture == Init /\ [][NextCapture]_vars

\* The session without capture buffers and inbound messages: connect,
\* disconnect, one recording, and the transports opening and failing.
NextSession ==
    \/ Connect
    \/ Disconnect
    \/ StartRecordingSmall
    \/ StopRecording
    \/ RunMain
    \/ \E c \in Conns : HandshakeOk(c)
    \/ \E c \in Conns : HandshakeFail(c)
    \/ \E c \in Conns : TransportFail(c)
    \/ \E c \in Conns : ReceiveFailure(c)

SpecSession == InitIn /\ [][NextSession]_vars

\* AudioPlayback on its own, its three methods called in any order while the
\* player node renders.
PlaybackStart ==
    /\ \E engineOk \in (IF started \/ pbEngine THEN {TRUE} ELSE BOOLEAN) :
          Commit(playbackStart(Cur, engineOk).st)
    /\ NotDisconnect
    /\ UNCHANGED <<rpc, rmsg, rtext, audioVars, rendered,
                   envVars, webVars, captured,
                   nstart, nin>>

PlaybackStop ==
    /\ Commit(playbackStop(Cur))
    /\ NotDisconnect
    /\ UNCHANGED <<rpc, rmsg, rtext, audioVars, rendered,
                   envVars, webVars, captured,
                   nstart, nin>>

\* The nin-th buffer handed to enqueuePcm is chunk nin.
EnqueuePcm ==
    /\ nin < PlayChunks
    /\ nin' = nin + 1
    /\ Commit(enqueuePcm(Cur, <<"pcm", nin + 1>>))
    /\ NotDisconnect
    /\ UNCHANGED <<rpc, rmsg, rtext, audioVars, rendered,
                   envVars, webVars, captured,
                   nstart>>

NextPlayback ==
    \/ PlaybackStart
    \/ PlaybackStop
    \/ EnqueuePcm
    \/ Render

SpecPlayback == Init /\ [][NextPlayback]_vars

----------------------------------------------------------------------------
\* runtimeConfig.js. A string is the sequence of its characters; a value that
\* is not a string (undefined, null, a number) is NotAString.
Chars == {" ", "/", "a"}
Strings == UNION {[1..k -> Chars] : k \in 0..MaxLen}
Values == {[isString |-> TRUE, chars |-> s] : s \in Strings} \cup {NotAString}

\* What the fetch of /app-config.json and response.json() yield: the fetch
\* rejects, the response is not ok, the body is not JSON, the payload is not
\* an object (null, a number), or it is an object with some apiBase.
ConfigFiles ==
    {[kind |-> k, apiBase |-> NotAString] :
        k \in {"unreachable", "notOk", "badJson", "notObject"}}
    \cup {[kind |-> "object", apiBase |-> v] : v \in Values}

DEFAULT_API_BASE ==
    <<"h", "t", "t", "p", ":", "/", "/", "l", "o", "c", "a", "l", "h", "o",
      "s", "t", ":", "8", "0", "0", "0">>

\* String.prototype.trim
RECURSIVE trimStart(_)
trimStart(s) ==
    IF s # <<>> /\ Head(s) = " " THEN trimStart(Tail(s)) ELSE s

RECURSIVE trimEnd(_)
trimEnd(s) ==
    IF s # <<>> /\ s[Len(s)] = " "
    THEN trimEnd(SubSeq(s, 1, Len(s) - 1)) ELSE s

trim(s) == trimEnd(trimStart(s))

\* trimmed.replace(/\/+$/, "")
RECURSIVE stripTrailingSlashes(_)
stripTrailingSlashes(s) ==
    IF s # <<>> /\ s[Len(s)] = "/"
    THEN stripTrailingSlashes(SubSeq(s, 1, Len(s) - 1)) ELSE s

normalizeApiBase(value) ==
    IF ~value.isString THEN <<>>
    ELSE LET trimmed == trim(value.chars)
         IN  IF trimmed = <<>> THEN <<>>
             ELSE stripTrailingSlashes(trimmed)

\* loadRuntimeConfig: the try block covers the fetch and response.json(), so
\* every failure of the file leaves fileApiBase empty; || takes the first
\* operand that is not the empty string.
loadRuntimeConfig(env, file) ==
    LET fileApiBase == IF file.kind = "object"
                       THEN normalizeApiBase(file.apiBase)
                       ELSE <<>>
        envApiBase == normalizeApiBase(env)
    IN  IF envApiBase # <<>> THEN envApiBase
        ELSE IF fileApiBase # <<>> THEN fileApiBase
        ELSE DEFAULT_API_BASE

InitConfig ==
    /\ InitClient
    /\ inputRatio = 1
    /\ projectId = ""
    /\ envValue \in Values
    /\ configFile \in ConfigFiles
    /\ apiBase = None
    /\ InitChat({"App.jsx"})
    /\ InitNoStream

LoadRuntimeConfig ==
    /\ apiBase = None
    /\ apiBase' = Some(loadRuntimeConfig(envValue, configFile))
    /\ UNCHANGED <<deviceVars, envValue, configFile, chatVars, streamVars>>

NextConfig == LoadRuntimeConfig

SpecConfig == InitConfig /\ [][NextConfig]_vars

----------------------------------------------------------------------------
\* The chat of the web frontends. A message is [role, content, req, late]:
\* req is the sendMessage call it belongs to, late whether it was written
\* while another project was selected (both for observation only); content
\* is the sequence of the texts written into it.
\* A call of sendMessage is [projectId, selectedAtSend, mode, phase, at]:
\* projectId is the identifier the call uses after its awaits (the const of
\* main.js, the selectedId of the render whose sendMessage was called in
\* App.jsx), selectedAtSend the selection when it was called, at the
\* position of its assistant message in the list (streaming only).

\* appendMessage(projectId, role, content)
appendMessage(msgs, pid, role, text, r) ==
    [msgs EXCEPT ![pid] =
        Append(@, [role |-> role, content |-> text, req |-> r,
                   late |-> selectedId # pid])]

\* updateAssistantMessage(projectId, assistantId, update) of App.jsx, and the
\* assignment to assistant.content of main.js; text is what is appended.
updateAssistantMessage(msgs, pid, at, text) ==
    [msgs EXCEPT ![pid][at] =
        [@ EXCEPT !.content = Append(@, text),
                  !.late = @ \/ selectedId # pid]]

\* A sendMessage call that stored under the project selected at the time of
\* the write.
storeUnder_selected(r) == selectedId

\* The project a running sendMessage call stores under.
storeUnder(r) == reqs[r].projectId

\* onClick of a project, createProject, the first loadProjects:
\* setSelectedId in App.jsx; selectProject in main.js, which ends with
\* setSending(false).
SelectProject(p) ==
    /\ selectedId' = p
    /\ sending' = IF frontend = "main.js" THEN FALSE ELSE sending
    /\ UNCHANGED <<outsideChat, frontend, messages, reqs, nreq,
                   ndelta>>

\* sendMessage up to its first await: the user message is appended, sending
\* is set, and with streaming the empty assistant message is appended.
SendMessage ==
    /\ selectedId # NoProject
    /\ ~sending
    /\ nreq < MaxReq
    /\ nreq' = nreq + 1
    /\ sending' = TRUE
    /\ \E mode \in {"stream", "plain"} :
         LET pid == selectedId
             r == nreq + 1
             m1 == appendMessage(messages, pid, "user", <<"text">>, r)
             m2 == IF mode = "stream"
                   THEN appendMessage(m1, pid, "assistant", <<>>, r)
                   ELSE m1
         IN  /\ messages' = m2
             /\ reqs' = Append(reqs,
                   [projectId |-> pid, selectedAtSend |-> selectedId,
                    mode |-> mode, phase |-> "fetch", at |-> Len(m2[pid])])
    /\ UNCHANGED <<outsideChat, frontend, selectedId, ndelta>>

\* The call returns through finally: setSending(false).
Finish(r, msgs) ==
    /\ messages' = msgs
    /\ reqs' = [reqs EXCEPT ![r].phase = "done"]
    /\ sending' = FALSE
    /\ UNCHANGED <<outsideChat, frontend, selectedId, nreq, ndelta>>

\* POST /api/chat answers: the reply is appended.
PlainReply(r) ==
    /\ reqs[r].mode = "plain"
    /\ reqs[r].phase = "fetch"
    /\ Finish(r, appendMessage(messages, storeUnder(r), "assistant",
                               <<"reply">>, r))

\* The request fails, the response is not ok or a read of the stream throws:
\* the catch appends the error message.
RequestFails(r) ==
    /\ reqs[r].phase \in {"fetch", "stream"}
    /\ Finish(r, appendMessage(messages, storeUnder(r), "assistant",
                               <<"Error">>, r))

\* POST /api/chat/stream answers with a body.
StreamOpens(r) ==
    /\ reqs[r].mode = "stream"
    /\ reqs[r].phase = "fetch"
    /\ reqs' = [reqs EXCEPT ![r].phase = "stream"]
    /\ UNCHANGED <<outsideChat, frontend, selectedId, sending,
                   messages, nreq, ndelta>>

\* A response.output_text.delta event of the stream.
StreamDelta(r) ==
    /\ reqs[r].phase = "stream"
    /\ ndelta < MaxDeltas
    /\ ndelta' = ndelta + 1
    /\ messages' = updateAssistantMessage(messages, storeUnder(r),
                                          reqs[r].at, "delta")
    /\ UNCHANGED <<outsideChat, frontend, selectedId, sending,
                   reqs, nreq>>

\* The stream ends.
StreamEnds(r) ==
    /\ reqs[r].phase = "stream"
    /\ Finish(r, messages)

NextChat ==
    \/ \E p \in Projects : SelectProject(p)
    \/ SendMessage
    \/ \E r \in 1..MaxReq : r <= nreq /\ PlainReply(r)
    \/ \E r \in 1..MaxReq : r <= nreq /\ RequestFails(r)
    \/ \E r \in 1..MaxReq : r <= nreq /\ StreamOpens(r)
    \/ \E r \in 1..MaxReq : r <= nreq /\ StreamDelta(r)
    \/ \E r \in 1..MaxReq : r <= nreq /\ StreamEnds(r)

InitWeb ==
    /\ InitClient
    /\ inputRatio = 1
    /\ projectId = ""
    /\ envValue = NotAString
    /\ configFile = NoConfigFile
    /\ apiBase = None
    /\ InitChat(Frontends)
    /\ InitNoStream

SpecChat == InitWeb /\ [][NextChat]_vars

----------------------------------------------------------------------------
\* The read loop of streamResponse. The response body is a sequence of
\* bytes; "LF" is the line feed, "c3" "a9" the two bytes of one character
\* (U+00E9, written "E9"), every other byte an ASCII character of that name.
LF == <<"LF">>
DataPrefix == <<"d", "a", "t", "a", ":">>
DoneMarker == <<"[", "D", "O", "N", "E", "]">>

\* TextDecoder("utf-8").decode(value, { stream: true }): an incomplete
\* character at the end of a chunk is held back for the next call; a byte
\* that cannot start or continue a character decodes to U+FFFD.
RECURSIVE decodeFrom(_, _, _)
decodeFrom(held, bytes, out) ==
    IF bytes = <<>> THEN [chars |-> out, pending |-> held]
    ELSE LET b == Head(bytes)
         IN  IF held # <<>>
             THEN IF b = "a9"
                  THEN decodeFrom(<<>>, Tail(bytes), Append(out, "E9"))
                  ELSE decodeFrom(<<>>, bytes, Append(out, "FFFD"))
             ELSE IF b = "c3" THEN decodeFrom(<<b>>, Tail(bytes), out)
             ELSE IF b = "a9"
             THEN decodeFrom(<<>>, Tail(bytes), Append(out, "FFFD"))
             ELSE decodeFrom(<<>>, Tail(bytes), Append(out, b))

decode(held, bytes) == decodeFrom(held, bytes, <<>>)

\* String.prototype.split(sep) for a separator of one or two characters:
\* the pieces between the matches of sep, found from the left.
RECURSIVE splitFrom(_, _, _)
splitFrom(s, sep, piece) ==
    IF s = <<>> THEN <<piece>>
    ELSE IF Len(s) >= Len(sep) /\ SubSeq(s, 1, Len(sep)) = sep
    THEN <<piece>> \o splitFrom(SubSeq(s, Len(sep) + 1, Len(s)), sep, <<>>)
    ELSE splitFrom(Tail(s), sep, Append(piece, Head(s)))

split(s, sep) == splitFrom(s, sep, <<>>)

startsWith(line, prefix) ==
    Len(line) >= Len(prefix) /\ SubSeq(line, 1, Len(prefix)) = prefix

\* The events of the stream. A field is None when the event has no such
\* field (or not a string), Some(text) otherwise; the text may be empty.
DeltaType == "response.output_text.delta"
DoneType == "response.output_text.done"
ErrorType == "response.error"

Event(type, delta, text, error) ==
    [type |-> type, delta |-> delta, text |-> text, error |-> error]

\* JSON.parse on the payloads of the model: "{E9}" stands for the JSON text
\* of a delta event with delta "E9", "{T}" for a done event with text "T",
\* "{}" for a done event without text, "{!}" for an error event. Any other
\* payload (a truncated text, two texts, text with other characters around
\* it) is not valid JSON and makes JSON.parse throw: None.
parseJson(payload) ==
    IF payload = <<"{", "E9", "}">>
    THEN Some(Event(DeltaType, Some("E9"), None, None))
    ELSE IF payload = <<"{", "T", "}">>
    THEN Some(Event(DoneType, None, Some("T"), None))
    ELSE IF payload = <<"{", "}">>
    THEN Some(Event(DoneType, None, None, None))
    ELSE IF payload = <<"{", "!", "}">>
    THEN Some(Event(ErrorType, None, None, Some("e")))
    ELSE None

\* A delta that replaces the content.
concat_replace(previous, text) == <<text>>

\* previous + text
concat(previous, text) == IF text = "" THEN previous ELSE Append(previous, text)

\* The three if statements on a parsed event: updateAssistantMessage with
\* typeof checks in App.jsx; assistant.content += event.delta || "" and
\* if (event.text) in main.js, which has no branch for response.error.
handleEvent(fe, previous, event) ==
    IF fe = "App.jsx"
    THEN IF event.type = DeltaType /\ event.delta # None
         THEN concat(previous, event.delta[1])
         ELSE IF event.type = DoneType /\ event.text # None
         THEN concat(<<>>, event.text[1])
         ELSE IF event.type = ErrorType /\ event.error # None
         THEN <<"Error">>
         ELSE previous
    ELSE IF event.type = DeltaType
         THEN concat(previous, IF event.delta = None THEN ""
                               ELSE event.delta[1])
         ELSE IF event.type = DoneType /\ event.text # None
                 /\ event.text[1] # ""
         THEN <<event.text[1]>>
         ELSE previous

\* One line of a part: st is [content, parsed].
handleLine(fe, st, line) ==
    IF ~startsWith(line, DataPrefix) THEN st
    ELSE LET payload == trim(SubSeq(line, 6, Len(line)))
         IN  IF payload = <<>> \/ payload = DoneMarker THEN st
             ELSE LET event == parseJson(payload)
                      seen == [st EXCEPT !.parsed = Append(@, payload)]
                  IN  IF event = None THEN seen
                      ELSE [seen EXCEPT
                              !.content = handleEvent(fe, @, event[1])]

RECURSIVE handleLines(_, _, _)
handleLines(fe, st, lines) ==
    IF lines = <<>> THEN st
    ELSE handleLines(fe, handleLine(fe, st, Head(lines)), Tail(lines))

RECURSIVE handleParts(_, _, _)
handleParts(fe, st, parts) ==
    IF parts = <<>> THEN st
    ELSE handleParts(fe, handleLines(fe, st, split(Head(parts), LF)),
                     Tail(parts))

\* buffer = parts.pop() with the text after the last separator dropped.
rest_dropped(parts) == <<>>

\* buffer = parts.pop() ?? ""
rest(parts) == parts[Len(parts)]

\* One turn of the while loop for a chunk value the reader returned; st is
\* [pending, buffer, content, parsed].
readLoop(fe, st, value) ==
    LET decoded == decode(st.pending, value)
        parts == split(st.buffer \o decoded.chars, LF \o LF)
        done == handleParts(fe, [content |-> st.content,
                                 parsed |-> st.parsed],
                            SubSeq(parts, 1, Len(parts) - 1))
    IN  [pending |-> decoded.pending, buffer |-> rest(parts),
         content |-> done.content, parsed |-> done.parsed]

\* streamResponse before the first read.
NotRead == [pending |-> <<>>, buffer |-> <<>>, content |-> <<>>,
            parsed |-> <<>>]

\* The bodies: up to MaxPieces pieces in any order, cut into chunks anywhere.
\* A piece is a line feed, a data line with a delta (a blank after the
\* colon) and its line feed, a done event carrying text with its blank
\* line, or another character.
Pieces ==
    {LF,
     DataPrefix \o <<" ", "{", "c3", "a9", "}">> \o LF,
     DataPrefix \o <<"{", "T", "}">> \o LF \o LF,
     <<"x">>}

RECURSIVE Flatten(_)
Flatten(ps) == IF ps = <<>> THEN <<>> ELSE Head(ps) \o Flatten(Tail(ps))

BodiesOf(pieces, n) ==
    {Flatten(ps) : ps \in UNION {[1..k -> pieces] : k \in 0..n}}

InitStreamOf(bodies) ==
    /\ InitClient
    /\ inputRatio = 1
    /\ projectId = ""
    /\ envValue = NotAString
    /\ configFile = NoConfigFile
    /\ apiBase = None
    /\ InitChat(Frontends)
    /\ body \in bodies
    /\ consumed = 0
    /\ pending = <<>>
    /\ buffer = <<>>
    /\ content = <<>>
    /\ parsed = <<>>
    /\ ended = FALSE

\* reader.read() returns the next chunk, of any length, and the loop body
\* runs on it.
ReadChunk ==
    /\ ~ended
    /\ consumed < Len(body)
    /\ \E n \in 1..(Len(body) - consumed) :
         LET st == readLoop(frontend,
                            [pending |-> pending, buffer |-> buffer,
                             content |-> content, parsed |-> parsed],
                            SubSeq(body, consumed + 1, consumed + n))
         IN  /\ consumed' = consumed + n
             /\ pending' = st.pending
             /\ buffer' = st.buffer
             /\ content' = st.content
             /\ parsed' = st.parsed
    /\ UNCHANGED <<deviceVars, configVars, chatVars, body, ended>>

\* reader.read() returns done: break.
EndOfStream ==
    /\ ~ended
    /\ consumed = Len(body)
    /\ ended' = TRUE
    /\ UNCHANGED <<deviceVars, configVars, chatVars, body, consumed, pending,
                   buffer, content, parsed>>

NextStream == ReadChunk \/ EndOfStream

InitStream == InitStreamOf(BodiesOf(Pieces, MaxPieces))

SpecStream == InitStream /\ [][NextStream]_vars

\* Bodies of whole events, each a data line and a blank line: a delta, a
\* done event carrying text, a done event without text, an empty data line,
\* the [DONE] marker, and a payload that is not valid JSON.
Blocks ==
    {DataPrefix \o payload \o LF \o LF :
        payload \in {<<" ", "{", "c3", "a9", "}">>,
                     <<"{", "T", "}">>,
                     <<"{", "}">>,
                     <<>>,
                     <<" ">> \o DoneMarker,
                     <<"{", "T">>}}

InitEvents == InitStreamOf(BodiesOf(Blocks, MaxBlocks))

SpecEvents == InitEvents /\ [][NextStream]_vars

----------------------------------------------------------------------------
\* What the server observes on the latest connection.
IsStart(m) == m[1] = "audio.start"
IsStop(m) == m[1] = "audio.stop"
IsBin(m) == m[1] = "bin"

\* The binary payloads after the last audio.start, in order.
RECURSIVE BinsSinceStart(_)
BinsSinceStart(w) ==
    IF w = <<>> THEN <<>>
    ELSE LET m == w[Len(w)]
             front == SubSeq(w, 1, Len(w) - 1)
         IN  IF IsStart(m) THEN <<>>
             ELSE IF IsBin(m) THEN Append(BinsSinceStart(front), m[2])
             ELSE BinsSinceStart(front)

\* The control messages, in order.
RECURSIVE Controls(_)
Controls(w) ==
    IF w = <<>> THEN <<>>
    ELSE LET m == w[Len(w)]
             front == SubSeq(w, 1, Len(w) - 1)
         IN  IF IsBin(m) THEN Controls(front) ELSE Append(Controls(front), m)

\* The lifecycle state as the published fields show it.
Disconnected == ~isConnected

----------------------------------------------------------------------------
\* C1: while the session is Streaming on an open transport and no capture
\* callback is in flight, the binary messages sent since audio.start are
\* exactly the canonical conversions of the buffers the tap delivered while
\* Streaming, in order, none skipped and none repeated.
C1_FramesAreCanonical ==
    (Streaming /\ task # NoTask /\ tstate[task] = "open" /\ apc = "idle")
        => BinsSinceStart(wire) = captured

\* C2: every binary message on a connection has an audio.start of the same
\* connection before it.
C2_BinaryAfterStart ==
    \A i \in 1..Len(wire) :
        IsBin(wire[i]) => \E j \in 1..(i - 1) : IsStart(wire[j])

\* C3: once audio.stop has been sent, no binary message is sent on that
\* connection until the next audio.start: the last control message before a
\* binary message is never audio.stop.
C3_NoBinaryAfterStop ==
    \A i \in 1..Len(wire) :
        IsBin(wire[i]) =>
            LET before == Controls(SubSeq(wire, 1, i - 1))
            IN  before # <<>> => ~IsStop(before[Len(before)])

\* No transport, or the transport the session holds has failed.
TransportDown == task = NoTask \/ tstate[task] = "failed"

\* The audio.start of the running recording reached the transport.
StartOnWire ==
    LET ctl == Controls(wire) IN ctl # <<>> /\ IsStart(ctl[Len(ctl)])

\* C4: startRecording called while the session is Disconnected (never
\* connected, after disconnect, or after a failure of its transport has set
\* isConnected to false) sends nothing, acquires no device and leaves
\* transcript, assistant text, status and lifecycle state as they were.
C4_StartWhileDisconnectedNoEffect ==
    [][(Disconnected /\ TransportDown /\ StartRecording) =>
          UNCHANGED <<clientVars, wire, mainq, recorderVars, playbackVars>>]_vars

\* C5: audio.start and audio.stop strictly alternate on a connection,
\* beginning with audio.start.
C5_StartStopAlternate ==
    LET ctl == Controls(wire)
    IN  \A k \in 1..Len(ctl) :
            IF k % 2 = 1 THEN IsStart(ctl[k]) ELSE IsStop(ctl[k])

\* C6: stopRecording called in a state other than Streaming sends nothing
\* and changes no state; called while Streaming it hands one audio.stop to
\* the transport, stops capture and shows Processing. (Stated for the states
\* in which isConnected is false only with the transport down.)
C6_StopOnlyFromStreaming ==
    [][(StopRecording /\ (Disconnected => TransportDown)) =>
          IF Streaming
          THEN /\ \/ wire' = Append(wire, <<"audio.stop">>)
                  \/ mainq' = Append(mainq, "sendFailed")
               /\ ~isRecording' /\ status' = "Processing"
               /\ ~tap' /\ ~recEngine'
          ELSE UNCHANGED <<clientVars, transportVars, mainq, recorderVars,
                           playbackVars>>]_vars

\* The terminal state of disconnect().
Terminal ==
    /\ task = NoTask
    /\ ~isConnected
    /\ ~isRecording
    /\ status = "Disconnected"

\* C7: disconnect() ends in the terminal Disconnected state, and a second
\* disconnect() right after it changes nothing, sends nothing and raises no
\* error.
C7_DisconnectIdempotent ==
    [][Disconnect =>
          /\ Terminal'
          /\ ~crashed'
          /\ discRun >= 1 =>
                UNCHANGED <<clientVars, transportVars, mainq, recorderVars,
                            audioVars, playbackVars, forwarded, crashed>>]_vars

C7_Witness == discRun = 2 /\ nconn >= 1 /\ wire # <<>>

\* C8: when disconnect() has returned, capture is stopped, playback is
\* stopped, the transport is closed and released and the session is
\* Disconnected.
C8_DisconnectReleasesAll ==
    discRun >= 1 =>
        /\ ~tap /\ ~recEngine /\ ~onPcmData
        /\ ~started /\ ~pbEngine /\ ~playing
        /\ task = NoTask
        /\ \A c \in 1..nconn : tstate[c] \in {"cancelled", "failed"}
        /\ Disconnected

\* C9: when the transport fails during a recording whose audio.start it had
\* taken, handling the failure makes the session Disconnected and releases
\* the capture device.
C9_FailureWhileStreaming ==
    [][(RunMain /\ Head(mainq) = "wsError" /\ Streaming /\ StartOnWire
          /\ task # NoTask /\ tstate[task] = "failed") =>
          (~isConnected' /\ ~isRecording' /\ ~tap' /\ ~recEngine')]_vars

\* C10: the session shows Connected only when the handshake of its transport
\* has succeeded.
C10_ConnectedAfterHandshake ==
    [][(~isConnected /\ isConnected') =>
          (task' # NoTask /\ tstate'[task'] = "open")]_vars

----------------------------------------------------------------------------
\* The receive of transport c has completed with .failure and no callback of
\* c is running: the client has been told that c failed.
FailureDelivered(c) ==
    tstate[c] = "failed" /\ recvPending[c] = 0 /\ rpc[c] = "idle"

\* C11: a transport is opened only by a connect() call, and once the failure
\* of a transport has been delivered to the client no receive is registered
\* on that transport again.
C11_NoAutomaticRetry ==
    [][/\ nconn' = nconn \/ Connect
       /\ \A c \in Conns : FailureDelivered(c) => recvPending'[c] = 0]_vars

\* C12: when a tts.done of the open transport the connected session holds
\* has been handled, the status is Idle, the session is connected and not
\* recording, and it holds a transport, so that startRecording is accepted.
C12_TtsDoneReturnsToIdle ==
    [][\A c \in Conns :
          (HandleMessage(c) /\ rmsg[c].type = "tts.done"
             /\ c = task /\ tstate[c] = "open" /\ isConnected) =>
          (status' = "Idle" /\ isConnected' /\ ~isRecording'
             /\ task' # NoTask)]_vars

\* The tags of the inbound control messages.
Tags ==
    {"asr.start", "asr.final", "assistant.delta", "assistant.done",
     "tts.start", "tts.audio", "viseme", "tts.done", "error"}

\* The payload field a tag requires is present and decodable.
FieldOk(m) ==
    CASE m.type \in {"asr.final", "assistant.delta"} -> m.text # None
      [] m.type = "tts.audio" ->
           m.data # None /\ m.data # Some(<<"!bad64">>)
      [] m.type = "viseme" -> m.value # None
      [] m.type = "error" -> m.message # None
      [] OTHER -> TRUE

WellFormed(m) == m.type \in Tags /\ FieldOk(m)
Malformed(m) == ~WellFormed(m)

\* C13: in every session state, handling a well-formed inbound message with
\* one of the nine tags publishes something: a property the views observe is
\* assigned or the payload is handed to the playback or the bridge.
C13_EveryTagDispatched ==
    [][\A c \in Conns :
          (HandleMessage(c) /\ WellFormed(rmsg[c])) => dispatched' # {}]_vars

\* C14: handling a malformed inbound message (no type, unknown type, or a
\* required payload field missing or undecodable) leaves status, transcript,
\* assistant text, viseme value, lifecycle state and playback queue unchanged.
C14_MalformedDropped ==
    [][\A c \in Conns :
          (HandleMessage(c) /\ Malformed(rmsg[c])) =>
          UNCHANGED <<status, transcript, assistantText, visemeValue,
                      isConnected, isRecording, task, pqueue>>]_vars

\* C15: every value handed to the renderer bridge lies in [0,1] (0..10 in
\* tenths).
C15_VisemeClamped ==
    forwarded # None => forwarded[1] \in 0..10

\* stopRecording has sent audio.stop on the connection the session holds.
StopOnWire == \E i \in 1..Len(wire) : IsStop(wire[i])

\* C16: after connect, startRecording and stopRecording, when tts.done has
\* brought the status back to Idle, every chunk received has been rendered or
\* is waiting on a running player that will render it: none is left on a
\* stopped player.
C16_ChunksRendered ==
    (StopOnWire /\ status = "Idle" /\ isConnected /\ ~isRecording)
        => (pqueue = <<>> \/ (playing /\ pbEngine))

\* a is b with some elements left out.
RECURSIVE IsSubSeq(_, _)
IsSubSeq(a, b) ==
    IF a = <<>> THEN TRUE
    ELSE IF b = <<>> THEN FALSE
    ELSE IF Head(a) = Head(b) THEN IsSubSeq(Tail(a), Tail(b))
    ELSE IsSubSeq(a, Tail(b))

\* C17: the buffers rendered, followed by the buffers still scheduled, are in
\* the order in which enqueuePcm was called, and no buffer is rendered twice.
C17_RenderedInEnqueueOrder ==
    /\ IsSubSeq(rendered \o pqueue, enqueued)
    /\ \A i, j \in 1..Len(rendered) : i < j => rendered[i] # rendered[j]

\* Two buffers have been rendered, a stop() has dropped one, and one more is
\* scheduled.
C17_Witness ==
    /\ Len(rendered) >= 2
    /\ pqueue # <<>>
    /\ Len(enqueued) > Len(rendered) + Len(pqueue)

\* C18: a buffer passed to enqueuePcm after the playback has been stopped is
\* not retained: while the playback is stopped its queue is empty.
C18_EnqueueAfterStopNoOp ==
    (StopOnWire /\ ~started) => pqueue = <<>>

\* C19: the tap, the capture engine and the playback engine are held only
\* while a recording is active; after a failed startRecording none remains.
C19_HeldOnlyWhileActive ==
    (tap \/ recEngine \/ pbEngine) => isRecording

\* C20: when the converter rejects a buffer captured while Streaming (the
\* buffer is not added to captured), nothing is handed to the send path for
\* it, the session, the connection and the recorder stay as they were, and
\* the tap callback is ready for the next buffer.
C20_ConversionFailureDropsBuffer ==
    [][(HandleBufferCap /\ Streaming /\ captured' = captured) =>
          /\ apc' = "idle" /\ adata' = <<>>
          /\ tap' /\ recEngine'
          /\ UNCHANGED <<clientVars, transportVars, mainq, recorderVars,
                         playbackVars, crashed>>]_vars

\* The converter rejected the first buffer of the recording and the second
\* one has been sent: it is the only binary message of the recording.
C20_Witness ==
    /\ Streaming
    /\ converter = "ok"
    /\ nbuf = 2
    /\ captured = <<Canonical(Buffer(2), inputRatio)>>
    /\ BinsSinceStart(wire) = <<convert(Buffer(2), inputRatio)>>

----------------------------------------------------------------------------
\* C21: the session records only with a converter: when AVAudioConverter
\* cannot be created, startRecording does not end with isRecording set.
C21_NoConverterNoRecording ==
    isRecording => converter = "ok"

\* The status texts of the fatal causes: a failed send, a failed receive, a
\* failed audio start.
FatalStatus == {"Send failed", "WS error", "Audio start failed"}

\* C22: a status showing a fatal cause is replaced by a status that shows
\* none only in a step of connect, disconnect, startRecording or
\* stopRecording.
C22_FatalStatusKept ==
    [][(status \in FatalStatus /\ status' \notin FatalStatus) =>
          (Connect \/ Disconnect \/ StartRecordingIn \/ StopRecording)]_vars

\* The audio.start messages on the connection the session holds.
StartsOnWire == {i \in 1..Len(wire) : IsStart(wire[i])}

\* C23: no audio.start with an empty project identifier is sent, and a
\* startRecording with an empty identifier acquires no device.
C23_EmptyProjectRejected ==
    /\ \A i \in StartsOnWire : wire[i][2] # ""
    /\ projectId = "" => ~tap /\ ~recEngine /\ ~pbEngine

\* C24: the assistant text changes only when an assistant.delta is handled,
\* which appends its text at the end, or when startRecording resets it to
\* empty.
C24_AssistantTextAppendOnly ==
    [][assistantText' # assistantText =>
          \/ StartRecordingIn /\ assistantText' = <<>>
          \/ \E c \in Conns :
                /\ HandleMessage(c)
                /\ rmsg[c].type = "assistant.delta"
                /\ rmsg[c].text # None
                /\ assistantText' = Append(assistantText, rmsg[c].text[1])]_vars

\* C27: no step of a receive callback (handleMessage, listen) writes the
\* session state: it changes only in steps of the main actor.
C27_StateOnMainActorOnly ==
    [][(\E c \in Conns : HandleMessage(c) \/ Listen(c)) =>
          UNCHANGED <<status, transcript, assistantText, visemeValue,
                      isConnected, isRecording, task>>]_vars

\* The transport the session holds is connecting or open.
TransportLive == task # NoTask /\ tstate[task] \in {"connecting", "open"}

\* C28: the failure block of an earlier, cancelled transport changes neither
\* isConnected nor status of the session that holds a live transport (the
\* receive of a live transport has not failed, so the block is an old one).
C28_OldCallbackNoEffect ==
    [][(RunMain /\ Head(mainq) = "wsError" /\ TransportLive) =>
          UNCHANGED <<isConnected, status>>]_vars

\* The transports that are connecting or open.
Live == {c \in Conns : tstate[c] \in {"connecting", "open"}}

\* C29: at most one transport is connecting or open at any time, and a
\* connect() step leaves the session not recording, with the capture of a
\* running recording stopped, holding the new transport as the only live one.
C29_OneLiveTransport ==
    [][/\ Cardinality(Live') <= 1
       /\ Connect =>
             /\ ~isRecording'
             /\ isRecording => (~tap' /\ ~recEngine')
             /\ Live' = {task'}]_vars

\* A second connect() has cancelled the first transport, which had carried
\* the recording (nothing was sent on the second), and the second is open.
C29_Witness ==
    /\ nconn = 2
    /\ tstate[1] = "cancelled"
    /\ tstate[2] = "open"
    /\ nstart = 1
    /\ wire = <<>>
    /\ task = 2

\* C30: a transport has at most one receive registered or being handled:
\* the next one is registered only when the previous message has been
\* handled.
C30_OneReceiveAtATime ==
    \A c \in Conns :
        recvPending[c] + (IF rpc[c] = "idle" THEN 0 ELSE 1) <= 1

----------------------------------------------------------------------------
\* A string with a character other than a blank.
NonBlank(v) == v.isString /\ \E i \in 1..Len(v.chars) : v.chars[i] # " "

\* Trimmed, with the trailing slashes removed.
Cleaned(v) == stripTrailingSlashes(trim(v.chars))

\* C26: loadRuntimeConfig returns the cleaned VITE_API_BASE when that is a
\* non-blank string, otherwise the cleaned apiBase of /app-config.json when
\* the file yields an object whose apiBase is a non-blank string, otherwise
\* the default.
C26_ApiBasePrecedence ==
    apiBase # None =>
        apiBase[1] =
            IF NonBlank(envValue) THEN Cleaned(envValue)
            ELSE IF configFile.kind = "object" /\ NonBlank(configFile.apiBase)
            THEN Cleaned(configFile.apiBase)
            ELSE DEFAULT_API_BASE

----------------------------------------------------------------------------
\* The positions of the stored delta texts; a call leaves at most three
\* messages (user, streamed assistant, error).
DeltasStored ==
    {<<p, i, j>> \in Projects \X (1..(3 * MaxReq)) \X (1..MaxDeltas) :
        /\ i <= Len(messages[p])
        /\ j <= Len(messages[p][i].content)
        /\ messages[p][i].content[j] = "delta"}

\* The messages of call r in the list of project p.
MessagesOf(r, p) ==
    {i \in 1..Len(messages[p]) : messages[p][i].req = r}

\* C25: in both web frontends every message is in the list of the project
\* that was selected when its sendMessage call was made, whatever is selected
\* when it is written: each call has its user message there, a finished call
\* its assistant message (reply, streamed text or error) as well, every
\* streamed delta is stored, and no list holds a message of a call made
\* under another project.
C25_StoredUnderProjectAtSend ==
    /\ \A p \in Projects : \A i \in 1..Len(messages[p]) :
         reqs[messages[p][i].req].selectedAtSend = p
    /\ \A r \in 1..nreq :
         LET mine == MessagesOf(r, reqs[r].selectedAtSend)
         IN  /\ \E i \in mine :
                  messages[reqs[r].selectedAtSend][i].role = "user"
             /\ reqs[r].phase = "done" =>
                  \E i \in mine :
                    messages[reqs[r].selectedAtSend][i].role = "assistant"
    /\ Cardinality(DeltasStored) = ndelta

\* Project p1 was selected at send, p2 is selected now, and p1's list holds
\* a delta and an error message that were both written after the switch.
C25_Witness ==
    /\ selectedId = "p2"
    /\ \E i \in 1..Len(messages["p1"]) :
         /\ messages["p1"][i].late
         /\ messages["p1"][i].content = <<"delta">>
    /\ \E i \in 1..Len(messages["p1"]) :
         /\ messages["p1"][i].late
         /\ messages["p1"][i].content = <<"Error">>

----------------------------------------------------------------------------
\* C31: whenever isRecording is true the session holds a transport handle,
\* and it is the same handle for as long as the recording lasts; so
\* stopRecording and disconnect called during a recording end it and hand
\* audio.stop to the transport that was given its audio.start (which takes
\* it unless it has failed, and then reports the failed send).
C31_RecordingHoldsTransport ==
    [][/\ isRecording' => task' # NoTask
       /\ (isRecording /\ isRecording') => task' = task
       /\ ((StopRecording \/ Disconnect) /\ isRecording) =>
             /\ ~isRecording'
             /\ IF tstate[task] \in {"connecting", "open"}
                THEN wire' = Append(wire, <<"audio.stop">>)
                ELSE /\ wire' = wire
                     /\ mainq' = Append(mainq, "sendFailed")]_vars

\* disconnect() was called during a recording: the connection that took the
\* audio.start took the audio.stop, and no handle is held any more.
C31_Witness ==
    /\ task = NoTask
    /\ ~isRecording
    /\ Len(wire) = 2
    /\ IsStart(wire[1])
    /\ IsStop(wire[2])

----------------------------------------------------------------------------
\* The sendMessage calls that have not returned.
InFlight == {r \in 1..nreq : reqs[r].phase # "done"}

\* C32: in both web frontends at most one chat request is in flight, and the
\* sending flag stays set for as long as a request is in flight, whatever is
\* selected in between.
C32_OneRequestInFlight ==
    /\ Cardinality(InFlight) <= 1
    /\ InFlight # {} => sending

----------------------------------------------------------------------------
\* The state of the loop after the bytes read so far, had the reader
\* returned them as a single chunk.
AsOneChunk ==
    IF consumed = 0 THEN NotRead
    ELSE readLoop(frontend, NotRead, SubSeq(body, 1, consumed))

\* s ends with t.
EndsWith(s, t) ==
    Len(t) <= Len(s) /\ SubSeq(s, Len(s) - Len(t) + 1, Len(s)) = t

\* s contains a blank-line separator.
HasSeparator(s) ==
    \E i \in 1..(Len(s) - 1) : s[i] = "LF" /\ s[i + 1] = "LF"

\* C33: however the body is cut into chunks, the payloads parsed, the
\* content and the text held in buffer are those of the same bytes read as
\* one chunk; what is left unprocessed is the end of the text read, after its
\* last separator.
C33_ChunkingIrrelevant ==
    /\ parsed = AsOneChunk.parsed
    /\ content = AsOneChunk.content
    /\ buffer = AsOneChunk.buffer
    /\ pending = AsOneChunk.pending
    /\ ~HasSeparator(buffer)
    /\ EndsWith(decode(<<>>, SubSeq(body, 1, consumed)).chars, buffer)

\* A chunk has ended inside a two-byte character of the second event, after
\* the first event was handled: the decoder holds the first byte and buffer
\* the beginning of the data line.
C33_Witness ==
    /\ ~ended
    /\ pending = <<"c3">>
    /\ parsed = << <<"{", "T", "}">> >>
    /\ content = <<"T">>
    /\ buffer = DataPrefix \o <<" ", "{">>

----------------------------------------------------------------------------
\* The text the loop has dealt with: what was decoded, less what buffer
\* still holds.
Handled ==
    LET text == decode(<<>>, SubSeq(body, 1, consumed)).chars
    IN  SubSeq(text, 1, Len(text) - Len(buffer))

\* The content after one more line, as the rules state it.
AfterLine(previous, line) ==
    IF ~startsWith(line, DataPrefix) THEN previous
    ELSE LET data == trim(SubSeq(line, 6, Len(line)))
             event == parseJson(data)
         IN  IF data = <<>> \/ data = DoneMarker \/ event = None
             THEN previous
             ELSE IF event[1].type = DeltaType /\ event[1].delta # None
             THEN Append(previous, event[1].delta[1])
             ELSE IF event[1].type = DoneType /\ event[1].text # None
             THEN <<event[1].text[1]>>
             ELSE previous

RECURSIVE AfterLines(_, _)
AfterLines(previous, lines) ==
    IF lines = <<>> THEN previous
    ELSE AfterLines(AfterLine(previous, Head(lines)), Tail(lines))

====
